---- MODULE Spec2Model ----
(***************************************************************************)
(* A model of the cobe Brain (brain.go): the n-gram edge construction used *)
(* by Learn (toChain, toEdges), the Learn mutation of the graph store, and *)
(* the deadline-bounded Reply loop (replySearch, join, best-of selection). *)
(*                                                                         *)
(* The graph store (graph.go), the tokenizer and the scorer are not part   *)
(* of the modelled sources; they are modelled from the specification of    *)
(* their interfaces.                                                       *)
(***************************************************************************)
EXTENDS Integers, Sequences, FiniteSets

VARIABLES
    graph,      \* the graph store: [order, tokens, nodes, edges]
    pc,         \* "idle" | "reply" | "done" | "panic"
    tokenIds,   \* Reply: the pivot candidates
    search,     \* Reply: the current generator pair [pivotID, pivotNode] and the
                \* advances each generator has taken, revN and fwdN
    bestReply,  \* Reply: NoBest or a reply record
    bestScore,  \* Reply: score of bestReply (-1 at the start)
    count,      \* Reply: the attempt counter
    elapsed,    \* Reply: wall-clock time since endTime was computed
    result,     \* Reply: the returned text
    scorer,     \* the Brain's scorer
    scored,     \* history: the candidates scored in this call
    iters,      \* history: loop iterations of this call, up to MaxIters
    nScored,    \* history: number of calls of the scorer in this call
    last,       \* history: what the last loop iteration of this call did
    nLearn,     \* history: number of Learn calls made since the store was opened
    lastLearn,  \* history: the tokens of the last Learn call on the store
    learned,    \* history: words of the Learn calls that were not skipped
    addCalls,   \* history: the addEdge calls of the last Learn call
    call,       \* the pure-function harness: the pending call
    out         \* the pure-function harness: its result

vars == <<graph, pc, tokenIds, search, bestReply, bestScore, count, elapsed,
          result, scorer, scored, iters, nScored, last, nLearn, lastLearn,
          learned, addCalls, call, out>>

replyVars == <<tokenIds, search, bestReply, bestScore, count, elapsed,
               result, scored, iters, nScored, last>>
learnVars == <<nLearn, lastLearn, learned, addCalls>>
pureVars == <<scorer, call, out>>

----------------------------------------------------------------------------
(* Bounds *)

MaxOrder == 2       \* orders 1..MaxOrder
MaxLen == 3         \* longest token sequence given to Learn, the corpus apart
MaxLearns == 1      \* Learn calls on an opened store
MaxReplyLen == 1    \* longest token sequence given to Reply
MaxPath == 2        \* longest path a search generator yields
MaxToString == 2    \* ToString calls on one reply
MaxIters == 2       \* loop iterations of one Reply call that are counted
ScoreSpan == 2      \* the scorers' offsets are 0 and -ScoreSpan
MaxStream == 5      \* longest id stream given to toEdges / toChain
MaxPureOrder == 3   \* orders 0..MaxPureOrder in the pure-function harness
MaxJoin == 2        \* longest path given to join

----------------------------------------------------------------------------
(* Program constants *)

spaceTokenID == -1
InitBestScore == -1
Deadline == 500
TickMs == 250
BabbleTries == 5

Words == {"a", "b"}
ReplyWords == {"a", "A", "b"}
StreamIds == {1, 2, spaceTokenID}
JoinIds == 1..3
Space == " "
NoReply == <<"no replies :  (">>
NoBest == [edges |-> <<>>, hasText |-> FALSE, text |-> <<>>, nil |-> TRUE]
NoSearch == [pivotID |-> 0, pivotNode |-> 0, revN |-> 0, fwdN |-> 0]
NoCall == [fn |-> "none"]
NoOut == [made |-> FALSE]

Max(a, b) == IF a >= b THEN a ELSE b

SeqsUpTo(S, n) == UNION {[1..k -> S] : k \in 0..n}

----------------------------------------------------------------------------
(* brain.go: the chain and edge builder *)

\* A faulty toChain: pads the front only.
ToChainFrontOnly(order, endTokenID, ids) ==
    [i \in 1..order |-> endTokenID] \o ids

toChain(order, endTokenID, ids) ==
    [i \in 1..order |-> endTokenID] \o ids \o [i \in 1..order |-> endTokenID]

\* The first loop of toEdges; i is the 0-based loop index.
RECURSIVE CompactLoop(_, _, _, _)
CompactLoop(ids, i, tokens, spaces) ==
    IF i >= Len(ids)
    THEN [tokens |-> tokens, spaces |-> spaces]
    ELSE LET t2 == Append(tokens, ids[i + 1])
         IN  IF i < Len(ids) - 1 /\ ids[i + 2] = spaceTokenID
             THEN CompactLoop(ids, i + 2, t2, Append(spaces, Len(t2)))
             ELSE CompactLoop(ids, i + 1, t2, spaces)

Compact(ids) == CompactLoop(ids, 0, <<>>, <<>>)

\* The capacities the tokens slice may have after n appends to a nil slice:
\* none for no append, otherwise at least n and at most the doubled growth.
RECURSIVE Doubled(_, _)
Doubled(n, c) == IF c >= n THEN c ELSE Doubled(n, 2 * c)

SliceCaps(n) == IF n = 0 THEN {0} ELSE {n, Doubled(n, 1)}

\* A faulty second loop: the space is looked for one token late.
RECURSIVE EdgeLoopLateSpace(_, _, _, _, _, _)
EdgeLoopLateSpace(order, tokens, i, prev, spaces, ret) ==
    IF ~(i < Len(tokens) - order + 1)
    THEN ret
    ELSE LET next == SubSeq(tokens, i + 1, i + order)
             hit == Len(spaces) > 0 /\ spaces[1] = i + order
         IN  EdgeLoopLateSpace(order, tokens, i + 1, next,
                               IF hit THEN Tail(spaces) ELSE spaces,
                               Append(ret, [prev |-> prev, next |-> next, hasSpace |-> hit]))

\* The second loop of toEdges; i is the 0-based loop index.
RECURSIVE EdgeLoop(_, _, _, _, _, _)
EdgeLoop(order, tokens, i, prev, spaces, ret) ==
    IF ~(i < Len(tokens) - order + 1)
    THEN ret
    ELSE LET next == SubSeq(tokens, i + 1, i + order)
             hit == Len(spaces) > 0 /\ spaces[1] = i + order - 1
         IN  EdgeLoop(order, tokens, i + 1, next,
                      IF hit THEN Tail(spaces) ELSE spaces,
                      Append(ret, [prev |-> prev, next |-> next, hasSpace |-> hit]))

\* toEdges with the capacity of its tokens slice; tokens[0:order] panics when
\* order exceeds the capacity.
toEdges(order, ids, cap) ==
    LET c == Compact(ids)
    IN  IF order > cap
        THEN [panic |-> TRUE, edges |-> <<>>]
        ELSE [panic |-> FALSE,
              edges |-> IF Len(c.tokens) <= order
                        THEN <<>>
                        ELSE EdgeLoop(order, c.tokens, 1, SubSeq(c.tokens, 1, order),
                                      c.spaces, <<>>)]

\* A faulty join: appends rev in traversal order.
JoinNoReverse(rev, fwd) == rev \o fwd

\* The loop of join; i is the 0-based loop index.
RECURSIVE JoinLoop(_, _, _)
JoinLoop(rev, i, edges) ==
    IF ~(i >= 0) THEN edges ELSE JoinLoop(rev, i - 1, Append(edges, rev[i + 1]))

join(rev, fwd) == JoinLoop(rev, Len(rev) - 1, <<>>) \o fwd

----------------------------------------------------------------------------
(* The graph store, from the specification of its interface.  Ids are      *)
(* positions: a token id indexes tokens, a node id indexes nodes, an edge  *)
(* id indexes edges.  A new store holds the end token and the end context. *)

endTokenID == 1
endContextID == 1

FreshGraph(order) ==
    [order  |-> order,
     tokens |-> <<"">>,
     nodes  |-> << [i \in 1..order |-> endTokenID] >>,
     edges  |-> <<>>]

IndexOf(seq, x) == IF \E i \in 1..Len(seq) : seq[i] = x
                   THEN CHOOSE i \in 1..Len(seq) : seq[i] = x
                   ELSE 0

GetOrCreateToken(g, text) ==
    IF IndexOf(g.tokens, text) # 0
    THEN [g |-> g, id |-> IndexOf(g.tokens, text)]
    ELSE [g |-> [g EXCEPT !.tokens = Append(@, text)], id |-> Len(g.tokens) + 1]

GetOrCreateNode(g, ids) ==
    IF IndexOf(g.nodes, ids) # 0
    THEN [g |-> g, id |-> IndexOf(g.nodes, ids)]
    ELSE [g |-> [g EXCEPT !.nodes = Append(@, ids)], id |-> Len(g.nodes) + 1]

EdgeIndex(g, prevNode, nextNode, hasSpace) ==
    IF \E i \in 1..Len(g.edges) : /\ g.edges[i].prev = prevNode
                                  /\ g.edges[i].next = nextNode
                                  /\ g.edges[i].hasSpace = hasSpace
    THEN CHOOSE i \in 1..Len(g.edges) : /\ g.edges[i].prev = prevNode
                                        /\ g.edges[i].next = nextNode
                                        /\ g.edges[i].hasSpace = hasSpace
    ELSE 0

addEdge(g, prevNode, nextNode, hasSpace) ==
    LET i == EdgeIndex(g, prevNode, nextNode, hasSpace)
    IN  IF i # 0
        THEN [g EXCEPT !.edges[i].count = @ + 1]
        ELSE [g EXCEPT !.edges = Append(@, [prev |-> prevNode, next |-> nextNode,
                                            hasSpace |-> hasSpace, count |-> 1])]

----------------------------------------------------------------------------
(* brain.go: Learn *)

RECURSIVE countGoodTokens(_)
countGoodTokens(tokens) ==
    IF tokens = <<>> THEN 0
    ELSE (IF Head(tokens) # Space THEN 1 ELSE 0) + countGoodTokens(Tail(tokens))

\* A faulty guard: an input of exactly `order` words is learned.
LearnSkipsStrict(tokens, order) == countGoodTokens(tokens) < order

\* The early return of Learn.
LearnSkips(tokens, order) == countGoodTokens(tokens) <= order

\* The token loop of Learn, from a state [g, ids].
RECURSIVE LearnTokens(_, _)
LearnTokens(st, tokens) ==
    IF tokens = <<>> THEN st
    ELSE IF Head(tokens) = Space
         THEN LearnTokens([st EXCEPT !.ids = Append(@, spaceTokenID)], Tail(tokens))
         ELSE LET r == GetOrCreateToken(st.g, Head(tokens))
              IN  LearnTokens([g |-> r.g, ids |-> Append(st.ids, r.id)], Tail(tokens))

\* The edges forEdges hands to its callback.  The chain starts with `order`
\* end tokens, so tokens[0:order] is within the slice.
forEdges(order, ids) ==
    LET chain == toChain(order, endTokenID, ids)
    IN  toEdges(order, chain, Len(Compact(chain).tokens)).edges

\* A faulty callback: prevNode is resolved once and never advanced.
LearnEdgeStuck(st, e) ==
    LET p == IF st.prevNode = 0 THEN GetOrCreateNode(st.g, e.prev)
                                ELSE [g |-> st.g, id |-> st.prevNode]
        n == GetOrCreateNode(p.g, e.next)
    IN  [g |-> addEdge(n.g, p.id, n.id, e.hasSpace), prevNode |-> p.id,
         calls |-> Append(st.calls, [prevNode |-> p.id, nextNode |-> n.id,
                                     hasSpace |-> e.hasSpace, e |-> e])]

\* The callback Learn passes to forEdges, from a state [g, prevNode, calls];
\* calls is the log of its addEdge calls, each with the edge it was made for.
LearnEdge(st, e) ==
    LET p == IF st.prevNode = 0 THEN GetOrCreateNode(st.g, e.prev)
                                ELSE [g |-> st.g, id |-> st.prevNode]
        n == GetOrCreateNode(p.g, e.next)
    IN  [g |-> addEdge(n.g, p.id, n.id, e.hasSpace), prevNode |-> n.id,
         calls |-> Append(st.calls, [prevNode |-> p.id, nextNode |-> n.id,
                                     hasSpace |-> e.hasSpace, e |-> e])]

RECURSIVE LearnEdges(_, _)
LearnEdges(st, edges) ==
    IF edges = <<>> THEN st ELSE LearnEdges(LearnEdge(st, Head(edges)), Tail(edges))

\* Learn(tokens) on the store g: the store after it and its addEdge calls.
LearnRun(g, tokens) ==
    IF LearnSkips(tokens, g.order) THEN [g |-> g, prevNode |-> 0, calls |-> <<>>]
    ELSE LET t == LearnTokens([g |-> g, ids |-> <<>>], tokens)
         IN  LearnEdges([g |-> t.g, prevNode |-> 0, calls |-> <<>>],
                        forEdges(g.order, t.ids))

\* The store after Learn(tokens).
LearnGraph(g, tokens) == LearnRun(g, tokens).g

WordsOf(tokens) == {tokens[i] : i \in 1..Len(tokens)} \ {Space}

----------------------------------------------------------------------------
(* The store's read side, from the specification of its interface *)

VocabIds(g) == {i \in 1..Len(g.tokens) : i # endTokenID}

\* The stemmer folds case.
Stem(w) == IF w = "A" THEN "a" ELSE w

filterPivots(g, toks) == {i \in VocabIds(g) : g.tokens[i] \in toks}

getTokensByStem(g, w) == {i \in VocabIds(g) : Stem(g.tokens[i]) = Stem(w)}

\* getRandomToken: a vocabulary token, or 0 for an empty vocabulary.
RandomTokens(g) == IF VocabIds(g) = {} THEN {0} ELSE VocabIds(g)

\* getRandomNodeWithToken: a node holding the token, or 0 if there is none.
RandomNodesWithToken(g, t) ==
    LET ns == {n \in 1..Len(g.nodes) : \E k \in 1..Len(g.nodes[n]) : g.nodes[n][k] = t}
    IN  IF ns = {} THEN {0} ELSE ns

\* The paths of at most k edges a search from node may yield: each walks the
\* edges in its direction until it reaches the end context.
RECURSIVE Walks(_, _, _, _)
Walks(g, node, dir, k) ==
    IF k = 0 THEN {}
    ELSE LET from(e) == IF dir = "Forward" THEN g.edges[e].prev ELSE g.edges[e].next
             to(e)   == IF dir = "Forward" THEN g.edges[e].next ELSE g.edges[e].prev
             leaving == {e \in 1..Len(g.edges) : from(e) = node}
         IN  UNION {(IF to(e) = endContextID THEN {<<e>>} ELSE {})
                    \cup {<<e>> \o w : w \in Walks(g, to(e), dir, k - 1)} : e \in leaving}

TokenText(g, t) == IF t \in 1..Len(g.tokens) THEN g.tokens[t] ELSE ""

\* getTextByEdge: the text of the last token of the edge's prev node, and the
\* edge's space flag.
getTextByEdge(g, e) ==
    LET n == g.nodes[g.edges[e].prev]
    IN  [word |-> TokenText(g, n[Len(n)]), hasSpace |-> g.edges[e].hasSpace]

----------------------------------------------------------------------------
(* brain.go: Reply *)

unique(tokens) == {tokens[i] : i \in 1..Len(tokens)}

conflateStems(g, tokens) == UNION {getTokensByStem(g, tokens[i]) : i \in 1..Len(tokens)}

\* The pivot candidates before the babbling fallback.
PivotCandidates(g, tokens) == filterPivots(g, unique(tokens)) \cup conflateStems(g, tokens)

\* A faulty look-up: the words of the input are interned as Learn does.
ReplyStoreInterns(g, tokens) == LearnTokens([g |-> g, ids |-> <<>>], tokens).g

\* The store once Reply has derived its pivot candidates: the words of the
\* input are looked up with filterPivots and getTokensByStem, and babble
\* draws with getRandomToken; none of them writes.
ReplyStore(g, tokens) == g

\* The id sets babble may return: up to five draws, those that are not > 0
\* dropped.
babble(g) ==
    {S \in SUBSET {t \in RandomTokens(g) : t > 0} :
        /\ Cardinality(S) <= BabbleTries
        /\ (S = {} => RandomTokens(g) = {0})}

newReply(edges) == [edges |-> edges, hasText |-> FALSE, text |-> <<>>, nil |-> FALSE]

\* strings.Join(parts, ""): a text is the sequence of its non-empty parts.
RECURSIVE Parts(_, _)
Parts(g, edges) ==
    IF edges = <<>> THEN <<>>
    ELSE LET t == getTextByEdge(g, Head(edges))
         IN  (IF t.word = "" THEN <<>> ELSE <<t.word>>)
             \o (IF t.hasSpace THEN <<Space>> ELSE <<>>)
             \o Parts(g, Tail(edges))

\* The edges ToString asks the store the text of, in the order of asking.
ToStringAsks(r) == IF ~r.hasText THEN r.edges ELSE <<>>

\* A faulty ToString: the text is computed and the flag is left unset.
ToStringNoFlag(g, r) ==
    IF ~r.hasText THEN [r EXCEPT !.text = Parts(g, r.edges)] ELSE r

\* The reply after ToString; its text field is the value returned.
ToString(g, r) ==
    IF ~r.hasText THEN [r EXCEPT !.hasText = TRUE, !.text = Parts(g, r.edges)] ELSE r

\* The scorer, from the specification of its interface: a function of the
\* edge sequence.  The scorers considered grow or fall with the length of the
\* reply or give every reply the same score.
Scorers == [slope : {-1, 0, 1}, offset : {0 - ScoreSpan, 0}]

Score(sc, edges) == sc.slope * Len(edges) + sc.offset

\* What Next and Result of a generator may give: a path, or exhaustion.
Exhausted == [ok |-> FALSE, path |-> <<>>]

Yields(g, node, dir) ==
    {[ok |-> TRUE, path |-> w] : w \in Walks(g, node, dir, MaxPath)} \cup {Exhausted}

\* The generator pairs replySearch may open: a pivot of tokenIds, a node
\* holding it, and a search from that node in each direction.
replySearch(g, ids) ==
    UNION {{[pivotID |-> pivotID, pivotNode |-> pivotNode, revN |-> 0, fwdN |-> 0] :
                pivotNode \in RandomNodesWithToken(g, pivotID)} : pivotID \in ids}

\* A faulty closure: both generators are advanced before either is looked at.
replySearchNextEager(rev, fwd) ==
    IF ~rev.ok \/ ~fwd.ok
    THEN [valid |-> FALSE, edges |-> <<>>, revNext |-> TRUE, fwdNext |-> TRUE]
    ELSE [valid |-> TRUE, edges |-> join(rev.path, fwd.path),
          revNext |-> TRUE, fwdNext |-> TRUE]

\* The closure replySearch returns, rev and fwd being what the next advance
\* of each generator gives: its result, and which generators it advanced.
replySearchNext(rev, fwd) ==
    IF ~rev.ok
    THEN [valid |-> FALSE, edges |-> <<>>, revNext |-> TRUE, fwdNext |-> FALSE]
    ELSE IF ~fwd.ok
    THEN [valid |-> FALSE, edges |-> <<>>, revNext |-> TRUE, fwdNext |-> TRUE]
    ELSE [valid |-> TRUE, edges |-> join(rev.path, fwd.path),
          revNext |-> TRUE, fwdNext |-> TRUE]

\* The record kept of a loop iteration: the closure's result r on the
\* generators opened from node, which generators were advanced and gave a
\* path, and for a candidate the length of its reverse half and the node.
NoIter ==
    [valid |-> FALSE, edges |-> <<>>, revNext |-> FALSE, fwdNext |-> FALSE,
     revOk |-> FALSE, fwdOk |-> FALSE, revLen |-> 0, pivotNode |-> 0]

Iteration(r, rev, fwd, node) ==
    [valid |-> r.valid, edges |-> r.edges, revNext |-> r.revNext,
     fwdNext |-> r.fwdNext,
     revOk |-> r.revNext /\ rev.ok,
     fwdOk |-> r.fwdNext /\ fwd.ok,
     revLen |-> IF r.valid THEN Len(rev.path) ELSE 0,
     pivotNode |-> IF r.valid THEN node ELSE 0]

\* What an iteration on the generator pair s may do, over what the two
\* generators may give.
Iterations(g, s) ==
    {Iteration(replySearchNext(rev, fwd), rev, fwd, s.pivotNode) :
        rev \in Yields(g, s.pivotNode, "Reverse"),
        fwd \in Yields(g, s.pivotNode, "Forward")}

\* A faulty loop condition: the clock is not looked at.
BeforeAlways(t) == TRUE

\* The loop condition of Reply, time.Now().Before(endTime), t being the time
\* since endTime was computed.
Before(t) == t < Deadline

\* A faulty comparison: a candidate replaces the best on an equal score too.
BetterOrEqual(score, best) == score >= best

\* The comparison of the selection loop.
Better(score, best) == score > best

----------------------------------------------------------------------------
(* The Brain: Learn and Reply against one store *)

ReplyIdle ==
    /\ tokenIds = {}
    /\ search = NoSearch
    /\ bestReply = NoBest
    /\ bestScore = InitBestScore
    /\ count = 0
    /\ elapsed = 0
    /\ result = <<>>
    /\ scored = {}
    /\ iters = 0
    /\ nScored = 0
    /\ last = NoIter

\* Learn on a sentence of a small corpus: the training of a store before it
\* is opened.
Corpus ==
    {<<"b", "b">>,
     <<"a", Space, "b">>,
     <<"a", "a", "a">>,
     <<"b", Space, "a", "b">>,
     <<"a", Space, Space, "b">>}

\* OpenBrain binds a store: a new one, or one a corpus sentence was learned
\* into.
InitStore ==
    /\ \E o \in 1..MaxOrder :
       \E c \in Corpus \cup {<<>>} :
        /\ graph = LearnGraph(FreshGraph(o), c)
        /\ addCalls = LearnRun(FreshGraph(o), c).calls
        /\ lastLearn = c
        /\ learned = IF countGoodTokens(c) > o THEN WordsOf(c) ELSE {}
    /\ pc = "idle"
    /\ ReplyIdle
    /\ nLearn = 0
    /\ call = NoCall
    /\ out = NoOut

\* Sentences of three words with a space before the first word, after the
\* last, or both.
SpacedInputs ==
    {<<Space, "a", "b", "a">>, <<"a", "b", "b", Space>>,
     <<Space, "a", "b", "a", Space>>}

LearnInputs == SeqsUpTo(Words \cup {Space}, MaxLen) \cup Corpus \cup SpacedInputs

Learn ==
    /\ pc = "idle"
    /\ nLearn < MaxLearns
    /\ \E tokens \in LearnInputs :
        /\ graph' = LearnGraph(graph, tokens)
        /\ addCalls' = LearnRun(graph, tokens).calls
        /\ lastLearn' = tokens
        /\ learned' = IF countGoodTokens(tokens) > graph.order
                      THEN learned \cup WordsOf(tokens)
                      ELSE learned
    /\ nLearn' = nLearn + 1
    /\ UNCHANGED <<pc, replyVars, pureVars>>

InitLearn ==
    /\ InitStore
    /\ scorer = [slope |-> 0, offset |-> 0]

NextLearn == Learn

SpecLearn == InitLearn /\ [][NextLearn]_vars

\* The token sequences Reply may be given.
ReplyInputs == SeqsUpTo(ReplyWords \cup {Space}, MaxReplyLen)

InitReply ==
    /\ InitStore
    /\ scorer \in Scorers

\* Reply up to the first replySearch and the computation of endTime;
\* pickPivot panics on an empty candidate set (rand.Intn(0)).
ReplyStart ==
    /\ pc = "idle"
    /\ \E tokens \in ReplyInputs :
       \E ids \in (IF PivotCandidates(graph, tokens) = {}
                   THEN babble(graph)
                   ELSE {PivotCandidates(graph, tokens)}) :
        /\ tokenIds' = ids
        /\ graph' = ReplyStore(graph, tokens)
        /\ IF ids = {}
           THEN /\ pc' = "panic"
                /\ search' = NoSearch
           ELSE /\ pc' = "reply"
                /\ search' \in replySearch(graph, ids)
    /\ bestReply' = NoBest
    /\ bestScore' = InitBestScore
    /\ count' = 0
    /\ elapsed' = 0
    /\ result' = <<>>
    /\ scored' = {}
    /\ iters' = 0
    /\ nScored' = 0
    /\ last' = NoIter
    /\ UNCHANGED <<learnVars, pureVars>>

\* The wall clock advances while Reply runs.
Tick ==
    /\ pc = "reply"
    /\ elapsed < Deadline
    /\ elapsed' = elapsed + TickMs
    /\ UNCHANGED <<graph, pc, tokenIds, search, bestReply, bestScore, count,
                   result, scored, iters, nScored, last, learnVars, pureVars>>

\* One iteration of the loop in which next() is not valid: the reverse
\* generator is exhausted, or it produced a path and the forward one is
\* exhausted.  A new search replaces the current one.  Such iterations may
\* go on for as long as the clock allows.
ReplyRestart ==
    /\ pc = "reply"
    /\ Before(elapsed)
    /\ \E it \in Iterations(graph, search) :
        /\ ~it.valid
        /\ last' = it
    /\ search' \in replySearch(graph, tokenIds)
    /\ iters' = IF iters < MaxIters THEN iters + 1 ELSE iters
    /\ UNCHANGED <<graph, pc, tokenIds, bestReply, bestScore, count, elapsed,
                   result, scored, nScored, learnVars, pureVars>>

\* One iteration of the loop in which next() is valid: both generators
\* produce a path, the joined candidate is scored and compared.
ReplyScore ==
    /\ pc = "reply"
    /\ Before(elapsed)
    /\ iters < MaxIters
    /\ \E it \in Iterations(graph, search) :
        LET score == Score(scorer, it.edges)
        IN  /\ it.valid
            /\ last' = it
            /\ scored' = scored \cup {it.edges}
            /\ IF Better(score, bestScore)
               THEN /\ bestReply' = newReply(it.edges)
                    /\ bestScore' = score
               ELSE UNCHANGED <<bestReply, bestScore>>
    /\ search' = [search EXCEPT !.revN = @ + 1, !.fwdN = @ + 1]
    /\ nScored' = nScored + 1
    /\ count' = count + 1
    /\ iters' = iters + 1
    /\ UNCHANGED <<graph, pc, tokenIds, elapsed, result, learnVars, pureVars>>

\* The deadline has passed: Reply returns.
ReplyFinish ==
    /\ pc = "reply"
    /\ ~Before(elapsed)
    /\ IF bestReply.nil
       THEN /\ result' = NoReply
            /\ UNCHANGED bestReply
       ELSE /\ bestReply' = ToString(graph, bestReply)
            /\ result' = bestReply'.text
    /\ pc' = "done"
    /\ UNCHANGED <<graph, tokenIds, search, bestScore, count, elapsed,
                   scored, iters, nScored, last, learnVars, pureVars>>

\* The caller has the result; the Brain is ready for the next call.
ReplyReturn ==
    /\ pc = "done"
    /\ pc' = "idle"
    /\ tokenIds' = {}
    /\ search' = NoSearch
    /\ bestReply' = NoBest
    /\ bestScore' = InitBestScore
    /\ count' = 0
    /\ elapsed' = 0
    /\ result' = <<>>
    /\ scored' = {}
    /\ iters' = 0
    /\ nScored' = 0
    /\ last' = NoIter
    /\ UNCHANGED <<graph, learnVars, pureVars>>

NextReply ==
    \/ ReplyStart
    \/ Tick
    \/ ReplyRestart
    \/ ReplyScore
    \/ ReplyFinish
    \/ ReplyReturn

SpecReply == InitReply /\ [][NextReply]_vars

\* The clock advances, and the loop, whose every step returns, comes back to
\* its condition.
SpecReplyFair ==
    /\ InitReply
    /\ [][NextReply]_vars
    /\ WF_vars(Tick)
    /\ WF_vars(ReplyFinish)

----------------------------------------------------------------------------
(* The chain and edge builder and join on their own: a call is drawn, then *)
(* made.                                                                   *)

WorkedExample == <<1, 1, 1, 2, spaceTokenID, 3, spaceTokenID, 4, spaceTokenID, 5, 1, 1, 1>>

WorkedEdges ==
    <<[prev |-> <<1, 1, 1>>, next |-> <<1, 1, 2>>, hasSpace |-> FALSE],
      [prev |-> <<1, 1, 2>>, next |-> <<1, 2, 3>>, hasSpace |-> TRUE],
      [prev |-> <<1, 2, 3>>, next |-> <<2, 3, 4>>, hasSpace |-> TRUE],
      [prev |-> <<2, 3, 4>>, next |-> <<3, 4, 5>>, hasSpace |-> TRUE],
      [prev |-> <<3, 4, 5>>, next |-> <<4, 5, 1>>, hasSpace |-> FALSE],
      [prev |-> <<4, 5, 1>>, next |-> <<5, 1, 1>>, hasSpace |-> FALSE],
      [prev |-> <<5, 1, 1>>, next |-> <<1, 1, 1>>, hasSpace |-> FALSE]>>

Streams == SeqsUpTo(StreamIds, MaxStream)

\* A space sentinel stands for a space after the previous token: the streams
\* given to toEdges do not start with one (a chain starts with end tokens).
EdgeStreams == {s \in Streams : s = <<>> \/ s[1] # spaceTokenID}

ToEdgesCalls ==
    {[fn |-> "toEdges", order |-> n, ids |-> s] : n \in 1..MaxPureOrder, s \in EdgeStreams}
    \cup {[fn |-> "toEdges", order |-> 3, ids |-> WorkedExample]}

ToChainCalls ==
    {[fn |-> "toChain", order |-> n, ids |-> s] : n \in 0..MaxPureOrder, s \in Streams}

JoinCalls ==
    {[fn |-> "join", rev |-> r, fwd |-> f] :
        r \in SeqsUpTo(JoinIds, MaxJoin), f \in SeqsUpTo(JoinIds, MaxJoin)}
    \cup {[fn |-> "join", rev |-> <<3, 2, 1>>, fwd |-> <<4, 5>>]}

\* The tokenizer names a store may carry, and strings.ToLower on them.
TokenizerNames == {"cobe", "Cobe", "megahal", "MegaHAL", "other", ""}

ToLower(name) ==
    CASE name = "Cobe" -> "cobe"
      [] name = "MegaHAL" -> "megahal"
      [] OTHER -> name

\* The tokenizer a name selects; "nil" is the nil interface value.
getTokenizer(name) ==
    LET lower == ToLower(name)
    IN  CASE lower = "cobe" -> "cobe"
          [] lower = "megahal" -> "megahal"
          [] OTHER -> "nil"

Versions == {"1", "2", "3", ""}

\* What GetInfoString may give for a key: a value, or an error.
InfoStrings(S) == {[val |-> v, err |-> FALSE] : v \in S} \cup {[val |-> "", err |-> TRUE]}

\* OpenBrain on a store that opens or not and carries the metadata m.version
\* and m.tokenizer: err is "" and tok the Brain's tokenizer on success.
OpenBrain(m) ==
    IF ~m.opens THEN [err |-> "open", tok |-> "nil"]
    ELSE IF m.version.err THEN [err |-> "info", tok |-> "nil"]
    ELSE IF m.version.val # "2" THEN [err |-> "version", tok |-> "nil"]
    ELSE IF m.tokenizer.err THEN [err |-> "info", tok |-> "nil"]
    ELSE [err |-> "", tok |-> getTokenizer(m.tokenizer.val)]

\* b.tok.Split on a Brain whose tokenizer is the nil interface panics, in
\* Learn and in Reply alike.
SplitPanics(b) == b.tok = "nil"

OpenBrainCalls ==
    {[fn |-> "OpenBrain", opens |-> o, version |-> v, tokenizer |-> t] :
        o \in BOOLEAN, v \in InfoStrings(Versions), t \in InfoStrings(TokenizerNames)}

\* Replies over the edges of a trained store.
ToStringCalls ==
    UNION {LET g == LearnGraph(FreshGraph(o), c)
           IN  {[fn |-> "ToString", g |-> g, edges |-> p] :
                    p \in SeqsUpTo(1..Len(g.edges), MaxJoin)} :
           o \in 1..MaxOrder, c \in Corpus}

InitPure ==
    /\ graph = FreshGraph(1)
    /\ pc = "idle"
    /\ ReplyIdle
    /\ scorer = [slope |-> 0, offset |-> 0]
    /\ nLearn = 0
    /\ lastLearn = <<>>
    /\ learned = {}
    /\ addCalls = <<>>
    /\ call \in ToEdgesCalls \cup ToChainCalls \cup JoinCalls \cup OpenBrainCalls
                \cup ToStringCalls
    /\ out = NoOut

CallToEdges ==
    /\ out = NoOut
    /\ call.fn = "toEdges"
    /\ \E cap \in SliceCaps(Len(Compact(call.ids).tokens)) :
        out' = [made |-> TRUE, val |-> toEdges(call.order, call.ids, cap)]
    /\ UNCHANGED <<graph, pc, replyVars, learnVars, scorer, call>>

CallToChain ==
    /\ out = NoOut
    /\ call.fn = "toChain"
    /\ out' = [made |-> TRUE, val |-> toChain(call.order, endTokenID, call.ids)]
    /\ UNCHANGED <<graph, pc, replyVars, learnVars, scorer, call>>

\* join reads rev and fwd and appends to a slice it has made.
CallJoin ==
    /\ out = NoOut
    /\ call.fn = "join"
    /\ out' = [made |-> TRUE,
               val |-> [edges |-> join(call.rev, call.fwd),
                        rev |-> call.rev, fwd |-> call.fwd]]
    /\ UNCHANGED <<graph, pc, replyVars, learnVars, scorer, call>>

\* OpenBrain, and whether the first Learn or Reply on the Brain it returned
\* panics in Split.
CallOpenBrain ==
    /\ out = NoOut
    /\ call.fn = "OpenBrain"
    /\ LET r == OpenBrain(call)
       IN  out' = [made |-> TRUE,
                   val |-> [err |-> r.err, tok |-> r.tok,
                            panics |-> r.err = "" /\ SplitPanics(r)]]
    /\ UNCHANGED <<graph, pc, replyVars, learnVars, scorer, call>>

\* ToString on a reply newReply made, and again on the same reply: r is
\* the reply after the calls, texts what they returned and asked the edges
\* the store was asked the text of.
CallToString ==
    /\ call.fn = "ToString"
    /\ IF out = NoOut THEN TRUE ELSE Len(out.val.texts) < MaxToString
    /\ LET r == IF out = NoOut THEN newReply(call.edges) ELSE out.val.r
           texts == IF out = NoOut THEN <<>> ELSE out.val.texts
           asked == IF out = NoOut THEN <<>> ELSE out.val.asked
           after == ToString(call.g, r)
       IN  out' = [made |-> TRUE,
                   val |-> [r |-> after,
                            texts |-> Append(texts, after.text),
                            asked |-> asked \o ToStringAsks(r)]]
    /\ UNCHANGED <<graph, pc, replyVars, learnVars, scorer, call>>

NextPure ==
    \/ CallToEdges
    \/ CallToChain
    \/ CallJoin
    \/ CallOpenBrain
    \/ CallToString

SpecPure == InitPure /\ [][NextPure]_vars

Made(fn) == out.made /\ call.fn = fn

\* The stream without its space sentinels.
RemoveSpaces(ids) == SelectSeq(ids, LAMBDA t : t # spaceTokenID)

\* The stream with every run of space sentinels replaced by one sentinel.
RECURSIVE Collapse(_)
Collapse(ids) ==
    IF Len(ids) <= 1 THEN ids
    ELSE IF ids[1] = spaceTokenID /\ ids[2] = spaceTokenID
         THEN Collapse(Tail(ids))
         ELSE <<ids[1]>> \o Collapse(Tail(ids))

\* The position in the stream of its j-th entry that is not a space sentinel.
PosOfNth(ids, j) ==
    CHOOSE p \in 1..Len(ids) :
        /\ ids[p] # spaceTokenID
        /\ Len(RemoveSpaces(SubSeq(ids, 1, p))) = j

\* Every space sentinel of the stream immediately follows a content token.
SpacesFollowContent(ids) ==
    \A p \in 1..Len(ids) :
        ids[p] = spaceTokenID => (p > 1 /\ ids[p - 1] # spaceTokenID)

----------------------------------------------------------------------------
(* Claims about toEdges, toChain and join (SpecPure) *)

\* C5: for any order n >= 1 and any stream whose form without space
\* sentinels has m >= n+1 tokens, toEdges returns exactly m-n edges, the k-th
\* with prev = compacted[k..k+n-1] and next = compacted[k+1..k+n]; order 3 on
\* the worked example gives its 7 edges.
C5_EdgesAreWindowsOfCompacted ==
    Made("toEdges") =>
        LET n == call.order
            comp == RemoveSpaces(call.ids)
            m == Len(comp)
        IN  /\ m >= n + 1 =>
                /\ ~out.val.panic
                /\ Len(out.val.edges) = m - n
                /\ \A k \in 0..(m - n - 1) :
                    /\ out.val.edges[k + 1].prev = SubSeq(comp, k + 1, k + n)
                    /\ out.val.edges[k + 1].next = SubSeq(comp, k + 2, k + n + 1)
            /\ (call.ids = WorkedExample /\ n = 3) => out.val.edges = WorkedEdges

\* C6: for any stream in which every space sentinel immediately follows a
\* content token, each edge toEdges returns has hasSpace true exactly when
\* the stream has a space sentinel just before the last token of the edge's
\* next window, wherever the spaces are in the stream.
C6_HasSpaceIffSpaceBeforeLast ==
    (Made("toEdges") /\ SpacesFollowContent(call.ids) /\ ~out.val.panic) =>
        \A k \in 1..Len(out.val.edges) :
            LET p == PosOfNth(call.ids, k + call.order)
            IN  out.val.edges[k].hasSpace <=> (p > 1 /\ call.ids[p - 1] = spaceTokenID)

\* C7: toEdges returns for any stream the edges it returns for the stream
\* with every run of space sentinels replaced by a single one, and the space
\* sentinel never occurs in a prev or next window.
C7_SpaceRunsCollapse ==
    (Made("toEdges") /\ ~out.val.panic) =>
        LET one == Collapse(call.ids)
            cap == Max(call.order, Len(Compact(one).tokens))
        IN  /\ out.val.edges = toEdges(call.order, one, cap).edges
            /\ \A k \in 1..Len(out.val.edges) :
               \A j \in 1..call.order :
                    /\ out.val.edges[k].prev[j] # spaceTokenID
                    /\ out.val.edges[k].next[j] # spaceTokenID

\* C8: for any order n >= 1 and any stream whose form without space
\* sentinels has fewer than n+1 tokens, the empty stream included, toEdges
\* returns no edge and does not fail.
C8_ShortStreamNoEdges ==
    (Made("toEdges") /\ Len(RemoveSpaces(call.ids)) < call.order + 1) =>
        /\ ~out.val.panic
        /\ out.val.edges = <<>>

\* C9: for any order n and any id sequence s, toChain(n, s) has length
\* len(s)+2n, its first n and last n entries are the end token id, and its
\* middle entries are s, unchanged and in order.
C9_ToChainPadsBothEnds ==
    Made("toChain") =>
        LET n == call.order
            s == call.ids
        IN  /\ Len(out.val) = Len(s) + 2 * n
            /\ \A i \in 1..n : /\ out.val[i] = endTokenID
                               /\ out.val[n + Len(s) + i] = endTokenID
            /\ \A i \in 1..Len(s) : out.val[n + i] = s[i]

C9_Witness ==
    /\ Made("toChain")
    /\ call.order = 2
    /\ call.ids = <<2, spaceTokenID, 1>>
    /\ out.val = <<1, 1, 2, spaceTokenID, 1, 1, 1>>

\* C10: join(rev, fwd) is the elements of rev in reversed order followed by
\* the elements of fwd in order, of length len(rev)+len(fwd);
\* join([e3,e2,e1],[e4,e5]) = [e1,e2,e3,e4,e5]; rev and fwd are not modified.
C10_JoinReversesRevThenFwd ==
    Made("join") =>
        LET r == call.rev
            f == call.fwd
        IN  /\ Len(out.val.edges) = Len(r) + Len(f)
            /\ \A i \in 1..Len(r) : out.val.edges[i] = r[Len(r) + 1 - i]
            /\ \A j \in 1..Len(f) : out.val.edges[Len(r) + j] = f[j]
            /\ (r = <<3, 2, 1>> /\ f = <<4, 5>>) => out.val.edges = <<1, 2, 3, 4, 5>>
            /\ out.val.rev = r
            /\ out.val.fwd = f

C10_Witness ==
    /\ Made("join")
    /\ call.rev = <<3, 2, 1>>
    /\ call.fwd = <<4, 5>>
    /\ out.val.edges = <<1, 2, 3, 4, 5>>

----------------------------------------------------------------------------
(* Claims about Learn (SpecLearn) *)

\* Every word the store can offer as a pivot or render in a reply is a word
\* of a Learn call whose input had more than `order` words.
StoreWordsLearned ==
    /\ \A i \in VocabIds(graph) : graph.tokens[i] \in learned
    /\ \A tokens \in ReplyInputs :
       \A t \in PivotCandidates(graph, tokens) : TokenText(graph, t) \in learned
    /\ \A S \in babble(graph) : \A t \in S : TokenText(graph, t) \in learned
    /\ \A e \in 1..Len(graph.edges) : getTextByEdge(graph, e).word \in learned \cup {""}

\* A Learn call is made on an input of at most `order` words.
ShortLearnStep ==
    /\ nLearn' = nLearn + 1
    /\ countGoodTokens(lastLearn') <= graph.order

\* C3: Learn on an input with at most `order` words that are not spaces
\* changes nothing in the store (no token, node, edge or weight), so the
\* words of such inputs cannot become pivots or occur in a later reply.
C3_ShortLearnLeavesStore ==
    /\ [][ShortLearnStep => graph' = graph]_vars
    /\ []StoreWordsLearned

C3_Witness ==
    /\ nLearn = 1
    /\ graph.order = 1
    /\ lastLearn = <<"a">>
    /\ learned = {"b"}
    /\ Len(graph.edges) > 0

\* The ids Learn resolves the tokens to, in a store that holds them all.
IdsOf(g, tokens) ==
    [i \in 1..Len(tokens) |->
        IF tokens[i] = Space THEN spaceTokenID ELSE IndexOf(g.tokens, tokens[i])]

\* How often the transition of store edge e occurs in the sentence.
Occurrences(g, e, tokens) ==
    LET es == forEdges(g.order, IdsOf(g, tokens))
    IN  Cardinality({k \in 1..Len(es) :
            /\ es[k].prev = g.nodes[g.edges[e].prev]
            /\ es[k].next = g.nodes[g.edges[e].next]
            /\ es[k].hasSpace = g.edges[e].hasSpace})

\* A Learn call is made on the sentence the previous Learn call learned.
RelearnStep ==
    /\ nLearn' = nLearn + 1
    /\ lastLearn' = lastLearn
    /\ countGoodTokens(lastLearn) > graph.order

\* C4: learning the same sentence a second time leaves the tokens, nodes and
\* edges of the store as the first Learn left them; only weights change,
\* each by the number of times its transition occurs in the sentence.
C4_RelearnOnlyAddsWeight ==
    [][RelearnStep =>
        /\ graph'.tokens = graph.tokens
        /\ graph'.nodes = graph.nodes
        /\ Len(graph'.edges) = Len(graph.edges)
        /\ \A e \in 1..Len(graph.edges) :
            /\ graph'.edges[e].prev = graph.edges[e].prev
            /\ graph'.edges[e].next = graph.edges[e].next
            /\ graph'.edges[e].hasSpace = graph.edges[e].hasSpace
            /\ graph'.edges[e].count
                 = graph.edges[e].count + Occurrences(graph, e, lastLearn)]_vars

C4_Witness ==
    /\ nLearn = 1
    /\ graph.order = 1
    /\ lastLearn = <<"a", "a", "a">>
    /\ \E e \in 1..Len(graph.edges) :
        /\ graph.nodes[graph.edges[e].prev] = graph.nodes[graph.edges[e].next]
        /\ graph.edges[e].count = 4

----------------------------------------------------------------------------
(* Claims about Reply (SpecReply) *)

\* The highest score among the candidates scored in this call.
IsMaxScored(p) ==
    p \in scored /\ \A q \in scored : Score(scorer, q) <= Score(scorer, p)

\* C1: when the deadline expires Reply returns the text of the candidate
\* with the highest score among those scored in the call, whatever the scores
\* (zero and negative ones included), and the "no reply" sentinel only if no
\* candidate was scored.
C1_ReturnsBestScored ==
    pc = "done" =>
        /\ scored = {} => result = NoReply
        /\ scored # {} => \E p \in scored : IsMaxScored(p) /\ result = Parts(graph, p)
        /\ result = NoReply => scored = {}

\* C2: Reply never panics, whatever the input text and the store's content,
\* an empty vocabulary included.
C2_ReplyNeverPanics == pc # "panic"

\* C11: with a clock that advances and generators whose advances return,
\* a running Reply always comes to return, however produced paths and
\* exhaustions interleave, endless restarts included; and when no generator
\* pair yielded a path it returns the "no reply" sentinel.
C11_ReplyTerminates ==
    /\ (pc = "reply") ~> (pc = "done")
    /\ [](pc = "done" /\ count = 0 => result = NoReply)

C11_Witness ==
    /\ pc = "done"
    /\ count = 0
    /\ iters = MaxIters
    /\ result = NoReply
    /\ Len(graph.edges) > 0

\* C12: no step of Reply changes the store: its tokens, nodes, edges and
\* edge weights are after the call what they were before it.
C12_ReplyLeavesStore == [][graph' = graph]_vars

C12_Witness ==
    /\ pc = "done"
    /\ count > 0
    /\ result # NoReply
    /\ Len(graph.edges) > 0

\* C13: OpenBrain fails whenever the version is not the supported one or
\* the tokenizer name is not a recognized one, and a Brain it returns has a
\* tokenizer, so that no later Learn or Reply fails for the lack of one.
C13_OpenBrainValidates ==
    Made("OpenBrain") /\ call.opens /\ ~call.version.err /\ ~call.tokenizer.err =>
        /\ (call.version.val # "2"
              \/ ToLower(call.tokenizer.val) \notin {"cobe", "megahal"})
            => out.val.err # ""
        /\ out.val.err = "" => out.val.tok # "nil" /\ ~out.val.panics

\* Each edge of the path ends where the following one starts.
Contiguous(g, p) ==
    \A i \in 1..(Len(p) - 1) : g.edges[p[i]].next = g.edges[p[i + 1]].prev

\* C14: the generators yielding contiguous paths from the node they were
\* opened from, every candidate handed to the scorer is one contiguous chain
\* of edges from the start of context to the end of context, and it passes
\* through the pivot node of its search, where the reverse half ends and the
\* forward half starts.
C14_CandidateIsOneChain ==
    last.valid =>
        LET p == last.edges
            k == last.revLen
        IN  /\ 1 <= k /\ k < Len(p)
            /\ Contiguous(graph, p)
            /\ graph.edges[p[1]].prev = endContextID
            /\ graph.edges[p[Len(p)]].next = endContextID
            /\ graph.edges[p[k]].next = last.pivotNode
            /\ graph.edges[p[k + 1]].prev = last.pivotNode
            /\ p \in scored

C14_Witness ==
    /\ last.valid
    /\ last.revLen >= 2
    /\ Len(last.edges) - last.revLen >= 2

\* C15: a scored candidate replaces the best reply only when its score is
\* strictly greater than the best score; on an equal or a lower score the
\* best reply and the best score stay, so of equal scores the earliest is
\* kept.
C15_OnlyStrictlyBetterReplaces ==
    [][pc = "reply" /\ last'.valid /\ nScored' = nScored + 1 =>
        LET score == Score(scorer, last'.edges)
        IN  /\ score <= bestScore => bestReply' = bestReply /\ bestScore' = bestScore
            /\ bestReply' # bestReply =>
                 /\ score > bestScore
                 /\ bestReply' = newReply(last'.edges)
                 /\ bestScore' = score]_vars

C15_Witness ==
    /\ pc = "reply"
    /\ count = 2
    /\ last.valid
    /\ ~bestReply.nil
    /\ bestReply.edges # last.edges
    /\ Score(scorer, last.edges) = bestScore

\* An iteration of the loop in which a generator signalled exhaustion.
ExhaustedIteration ==
    /\ pc = "reply"
    /\ pc' = "reply"
    /\ elapsed' = elapsed
    /\ ~last'.valid

\* C16: an iteration in which a generator signals exhaustion scores nothing
\* and leaves the best reply and the attempt counter alone; the generators
\* are replaced by a pair newly opened from a pivot of the candidates; the
\* forward generator is not advanced when the reverse one is exhausted, and
\* a reverse path is dropped when the forward one is.  The attempt counter
\* is the number of candidates scored.
C16_ExhaustionRestarts ==
    [][/\ ExhaustedIteration =>
            /\ scored' = scored
            /\ nScored' = nScored
            /\ bestReply' = bestReply
            /\ bestScore' = bestScore
            /\ count' = count
            /\ search' \in replySearch(graph, tokenIds)
            /\ last'.revNext
            /\ ~last'.revOk => ~last'.fwdNext
            /\ last'.revOk => last'.fwdNext /\ ~last'.fwdOk
       /\ count' = nScored']_vars

C16_Witness ==
    /\ pc = "reply"
    /\ ~last.valid
    /\ last.revOk
    /\ last.fwdNext
    /\ ~last.fwdOk
    /\ count = 1
    /\ nScored = 1
    /\ search.revN = 0

\* The input has more words than the order and no two adjacent spaces.
LearnedSingleSpaced(tokens, order) ==
    /\ countGoodTokens(tokens) > order
    /\ \A i \in 1..(Len(tokens) - 1) : ~(tokens[i] = Space /\ tokens[i + 1] = Space)

\* C17: the edges Learn is handed are chain-contiguous, each edge's next
\* window being the following edge's prev window, and every addEdge call
\* passes the store's node of the edge's prev window and the store's node of
\* its next window, Learn resolving the prev node for the first edge only.
C17_AddEdgeGetsWindowNodes ==
    \A i \in 1..Len(addCalls) :
        /\ graph.nodes[addCalls[i].prevNode] = addCalls[i].e.prev
        /\ graph.nodes[addCalls[i].nextNode] = addCalls[i].e.next
        /\ i < Len(addCalls) => addCalls[i].e.next = addCalls[i + 1].e.prev

C17_Witness ==
    /\ nLearn = 1
    /\ graph.order = 2
    /\ lastLearn = <<"b", Space, "a", "b">>
    /\ Len(addCalls) = 5

\* C18: Learn on an input of k > order words, with single spaces anywhere,
\* makes k + order addEdge calls; the first edge's prev node is the node of
\* `order` end tokens, the last edge's next node is that node, and every word
\* of the input is in the next window of an edge.
C18_LearnAddsKPlusOrderEdges ==
    LearnedSingleSpaced(lastLearn, graph.order) =>
        LET n == Len(addCalls)
            ids == IdsOf(graph, lastLearn)
        IN  /\ n = countGoodTokens(lastLearn) + graph.order
            /\ graph.nodes[endContextID] = [j \in 1..graph.order |-> endTokenID]
            /\ addCalls[1].prevNode = endContextID
            /\ addCalls[n].nextNode = endContextID
            /\ \A i \in 1..Len(ids) :
                ids[i] # spaceTokenID =>
                    \E c \in 1..n : \E j \in 1..graph.order :
                        addCalls[c].e.next[j] = ids[i]

C18_Witness ==
    /\ nLearn = 1
    /\ graph.order = 1
    /\ lastLearn = <<Space, "a", "b">>
    /\ Len(addCalls) = 3

\* C19: through Learn, for an input with no two adjacent spaces, an added
\* edge has hasSpace exactly when a space stood immediately before the last
\* token of the edge's next window in the padded input; so no space is lost
\* or given to another edge, a space before the first word or after the
\* last included.
C19_LearnKeepsEverySpace ==
    LearnedSingleSpaced(lastLearn, graph.order) =>
        LET chain == toChain(graph.order, endTokenID, IdsOf(graph, lastLearn))
        IN  /\ \A i \in 1..Len(addCalls) :
                LET p == PosOfNth(chain, i + graph.order)
                IN  addCalls[i].hasSpace <=> (chain[p - 1] = spaceTokenID)
            /\ Cardinality({i \in 1..Len(addCalls) : addCalls[i].hasSpace})
                 = Cardinality({i \in 1..Len(lastLearn) : lastLearn[i] = Space})

C19_Witness ==
    /\ nLearn = 1
    /\ graph.order = 2
    /\ lastLearn = <<Space, "a", "b", "a", Space>>
    /\ Len(addCalls) = 5
    /\ addCalls[1].hasSpace
    /\ addCalls[4].hasSpace
    /\ \A i \in {2, 3, 5} : ~addCalls[i].hasSpace

\* C20: the text of a reply is computed at most once: over all the ToString
\* calls on it the store is asked the text of each edge once, in edge order,
\* by the first call, which sets the flag; every call returns the same
\* string.
C20_TextComputedOnce ==
    Made("ToString") =>
        /\ out.val.asked = call.edges
        /\ out.val.r.hasText
        /\ \A i \in 1..Len(out.val.texts) :
            out.val.texts[i] = Parts(call.g, call.edges)

C20_Witness ==
    /\ Made("ToString")
    /\ Len(out.val.texts) = MaxToString
    /\ Len(call.edges) = 2
    /\ call.edges[1] # call.edges[2]
    /\ Len(out.val.texts[1]) >= 2

====
